---- MODULE Spec2Model ----
(***************************************************************************)
(* Model of dashboard.py, the Streamlit dashboard of the Gangotri glacier  *)
(* project.  One run of the script (a "pass") prints the title blocks,     *)
(* calls the cached load_model_data(), dispatches on the selected page and *)
(* prints the footer.  A block is identified by its kind and by the source *)
(* line of the call that emits it; charts carry the columns they plot and  *)
(* metrics carry their label and formatted value.                          *)
(***************************************************************************)
EXTENDS Integers, Sequences, FiniteSets, TLC

\* ------------------------------------------------------------------ bounds
\* Longest header (number of columns) of an input table.
MaxCols == 3
\* Largest number of data rows of an input table.
MaxRows == 2

\* Cell values of the 'class' and 'slope' columns.
Values == {1, 2}

\* ------------------------------------------------------------------ names
Datasets == {"DEM", "Sentinel1", "Sentinel2"}

Pages ==
  {"Overview", "Data Analysis", "Satellite Imagery", "Machine Learning",
   "Results & Insights", "About"}

Modalities ==
  {"Digital Elevation Model (DEM)", "Sentinel-1 SAR", "Sentinel-2 Optical",
   "Landsat-8 Thermal"}

\* st.selectbox shows its first option until the user picks another one.
DefaultModality == "Digital Elevation Model (DEM)"

\* Column names a file of each dataset may carry: the names the page looks
\* up, and one name it never looks up.
ColumnNames(k) ==
  CASE k = "DEM"       -> {"elev_change", "class", "slope", "aspect"}
    [] k = "Sentinel1" -> {"VV_1", "VV_2", "class", "VH_1"}
    [] k = "Sentinel2" -> {"NDSI_2023", "NDVI_2023", "class", "B4"}

\* ------------------------------------------------------------------ tables
\* A table (pandas DataFrame read by read_csv): the header, in file order,
\* and the rows, each a function from column name to value.
Range(s) == {s[i] : i \in DOMAIN s}

Distinct(s) == \A i, j \in DOMAIN s : i # j => s[i] # s[j]

Headers(k) ==
  {h \in UNION {[1..n -> ColumnNames(k)] : n \in 1..MaxCols} : Distinct(h)}

\* Only 'class' and 'slope' cells are ever read for their value; every other
\* cell holds 0.
CellValues(c) == IF c \in {"class", "slope"} THEN Values ELSE {0}

RowsOf(h) ==
  LET Row == {r \in [Range(h) -> Values \cup {0}] :
                \A c \in Range(h) : r[c] \in CellValues(c)}
  IN  UNION {[1..n -> Row] : n \in 0..MaxRows}

NoTable == [columns |-> <<>>, rows |-> <<>>]

\* len(df)
NumRows(t) == Len(t.rows)

\* 'c' in df.columns
HasColumn(t, c) == c \in Range(t.columns)

\* df[c].nunique()
NUnique(t, c) == Cardinality({t.rows[i][c] : i \in DOMAIN t.rows})

RECURSIVE SumTo(_, _, _)
SumTo(t, c, i) == IF i = 0 THEN 0 ELSE t.rows[i][c] + SumTo(t, c, i - 1)

\* df[c].sum()
ColumnSum(t, c) == SumTo(t, c, NumRows(t))

\* ------------------------------------------------------------------ files
\* What the file system holds at a dataset's path: nothing, a file that
\* read_csv rejects, or a file that read_csv parses into a table.
Absent == [exists |-> FALSE, parses |-> FALSE, table |-> NoTable]

Corrupt == [exists |-> TRUE, parses |-> FALSE, table |-> NoTable]

Parseable(t) == [exists |-> TRUE, parses |-> TRUE, table |-> t]


\* ------------------------------------------------------------------ loader
\* A dict: a function whose domain is the set of its keys.
EmptyDict == [k \in {} |-> NoTable]

Put(d, k, v) == [x \in DOMAIN d \cup {k} |-> IF x = k THEN v ELSE d[x]]

\* One try block of load_model_data, run on the state st of the function body
\* (the dict built so far, the blocks that ran, whether an exception has left
\* the function) with the files fs.  read_csv raises on a file it cannot
\* parse; the bare except swallows it.
TryLoadUncaught(k, st, fs) ==
  IF st.raised THEN st
  ELSE [dict     |-> IF fs[k].exists /\ fs[k].parses
                       THEN Put(st.dict, k, fs[k].table) ELSE st.dict,
        attempts |-> Append(st.attempts, k),
        raised   |-> fs[k].exists /\ ~fs[k].parses]

TryLoadMissingRaises(k, st, fs) ==
  IF st.raised THEN st
  ELSE [dict     |-> IF fs[k].exists /\ fs[k].parses
                       THEN Put(st.dict, k, fs[k].table) ELSE st.dict,
        attempts |-> Append(st.attempts, k),
        raised   |-> ~fs[k].exists]

TryLoad(k, st, fs) ==
  IF st.raised THEN st
  ELSE [dict     |-> IF fs[k].exists /\ fs[k].parses
                       THEN Put(st.dict, k, fs[k].table) ELSE st.dict,
        attempts |-> Append(st.attempts, k),
        raised   |-> FALSE]

\* The body of load_model_data: the three try blocks in order.
LoadSingleTry(fs) ==
  LET s0 == [dict |-> EmptyDict, attempts |-> <<>>, raised |-> FALSE]
      s1 == TryLoadUncaught("DEM", s0, fs)
      s2 == TryLoadUncaught("Sentinel1", s1, fs)
      s3 == TryLoadUncaught("Sentinel2", s2, fs)
  IN  [s3 EXCEPT !.raised = FALSE]

load_model_data(fs) ==
  LET s0 == [dict |-> EmptyDict, attempts |-> <<>>, raised |-> FALSE]
      s1 == TryLoad("DEM", s0, fs)
      s2 == TryLoad("Sentinel1", s1, fs)
      s3 == TryLoad("Sentinel2", s2, fs)
  IN  s3

\* ------------------------------------------------------------------ blocks
\* A display block: the kind of the st.* call, the source line of the call,
\* and for charts and metrics what they show.
Block(kind, line) ==
  [kind |-> kind, line |-> line, label |-> "", x |-> "", y |-> "",
   color |-> "", value |-> <<>>]

Text(line) == Block("text", line)

Info(line) == Block("info", line)

Warning(line) == Block("warning", line)

Image(line) == Block("image", line)

\* A chart of literal data.
StaticChart(line, type) == [Block("chart", line) EXCEPT !.label = type]

\* A chart of a loaded table: its type and the columns it plots.
Chart(line, type, x, y, color) ==
  [Block("chart", line) EXCEPT !.label = type, !.x = x, !.y = y,
                               !.color = color]

Metric(line, label, value) ==
  [Block("metric", line) EXCEPT !.label = label, !.value = value]

\* What Streamlit shows for an exception that leaves the script.
Exception(line) == Block("exception", line)

\* The result of a piece of the script: the blocks it emitted and whether an
\* exception left it.
Emit(blocks) == [blocks |-> blocks, raised |-> FALSE]

Raise(line) == [blocks |-> <<Exception(line)>>, raised |-> TRUE]

\* a; b
Then(a, b) ==
  IF a.raised THEN a
  ELSE [blocks |-> a.blocks \o b.blocks, raised |-> b.raised]

\* ------------------------------------------------------------------ formats
\* f"{n:,}": the decimal digits of n in groups of three, most significant
\* group first.
RECURSIVE FmtThousands(_)
FmtThousands(n) ==
  IF n < 1000 THEN <<n>> ELSE Append(FmtThousands(n \div 1000), n % 1000)

\* f"{df[c].mean():.1f}" for a column of integers with sum total over n
\* rows: the mean in tenths, rounded to nearest, ties to even (every tie of
\* a quotient by n <= 4 is an exact binary fraction), as <<whole, tenth>>.
\* The mean of no rows is NaN, printed "nan": <<>> here.
FmtMean1(total, n) ==
  IF n = 0 THEN <<>>
  ELSE LET q == (10 * total) \div n
           r == (10 * total) % n
           tenths == IF 2 * r < n THEN q
                     ELSE IF 2 * r > n THEN q + 1
                     ELSE IF q % 2 = 0 THEN q ELSE q + 1
       IN  <<tenths \div 10, tenths % 10>>


\* ------------------------------------------------------------------ pages
\* Lines 19-146: page configuration, style sheet, title and sidebar.
Header ==
  <<Text(26), Text(122), Text(123), Text(125), Image(128), Block("title", 130),
    Block("radio", 131), Text(136), Text(137)>>

\* Lines 982-990.
Footer == <<Text(982), Text(983)>>

\* Lines 183-305.  The map is centred on [30.92, 79.08] (hundredths of a
\* degree) with a circle of 15000 m.
OverviewMap ==
  [Block("map", 242) EXCEPT !.label = "Gangotri Glacier",
                            !.value = <<3092, 7908, 15000>>]

OverviewReadsData(data) ==
  Emit(<<Text(184), Text(189), Text(198), Text(207), Text(215), Text(218),
         OverviewMap, Text(244), Text(250), Text(251), Text(258), Text(259),
         Text(273)>>
       \o (IF "DEM" \in DOMAIN data
             THEN <<Chart(298, "timeline", "Year", "Satellite", "Type")>>
             ELSE <<>>)
       \o <<Text(300), Text(301)>>)

Overview(data) ==
  Emit(<<Text(184), Text(189), Text(198), Text(207), Text(215), Text(218),
         OverviewMap, Text(244), Text(250), Text(251), Text(258), Text(259),
         Text(273), Chart(298, "timeline", "Year", "Satellite", "Type"),
         Text(300), Text(301)>>)

\* 'k' in data and len(data['k']) > 0    (lines 337, 362, 393, 411, 439, 459)
AvailableIgnoresRows(data, k) == k \in DOMAIN data

Available(data, k) == k \in DOMAIN data /\ NumRows(data[k]) > 0

\* Lines 337-358: the histogram of elev_change, a warning when the column is
\* missing, the placeholder when the dataset is.
DEMChartNoPlaceholder(data) ==
  IF Available(data, "DEM")
    THEN IF HasColumn(data["DEM"], "elev_change")
           THEN Emit(<<Chart(354, "histogram", "elev_change", "", "")>>)
           ELSE Emit(<<Warning(356)>>)
    ELSE Emit(<<>>)

DEMChartFirstColumn(data) ==
  IF Available(data, "DEM")
    THEN IF HasColumn(data["DEM"], "elev_change")
           THEN Emit(<<Chart(354, "histogram", "elev_change", "", "")>>)
           ELSE Emit(<<Chart(354, "histogram", data["DEM"].columns[1], "",
                             "")>>)
    ELSE Emit(<<Info(358)>>)

DEMChart(data) ==
  IF Available(data, "DEM")
    THEN IF HasColumn(data["DEM"], "elev_change")
           THEN Emit(<<Chart(354, "histogram", "elev_change", "", "")>>)
           ELSE Emit(<<Warning(356)>>)
    ELSE Emit(<<Info(358)>>)

\* Lines 362-367.
DEMStatisticsSwapped(data) ==
  IF Available(data, "DEM")
    THEN LET t == data["DEM"] IN
         Emit(<<Metric(363, "Total Samples", FmtThousands(NumRows(t)))>>
              \o (IF HasColumn(t, "class")
                    THEN <<Metric(365, "Classes Identified",
                                  <<NumRows(t)>>)>>
                    ELSE <<>>)
              \o (IF HasColumn(t, "slope")
                    THEN <<Metric(367, "Avg Slope",
                                  <<ColumnSum(t, "slope"), 0>>)>>
                    ELSE <<>>))
    ELSE Emit(<<>>)

DEMStatistics(data) ==
  IF Available(data, "DEM")
    THEN LET t == data["DEM"] IN
         Emit(<<Metric(363, "Total Samples", FmtThousands(NumRows(t)))>>
              \o (IF HasColumn(t, "class")
                    THEN <<Metric(365, "Classes Identified",
                                  <<NUnique(t, "class")>>)>>
                    ELSE <<>>)
              \o (IF HasColumn(t, "slope")
                    THEN <<Metric(367, "Avg Slope",
                                  FmtMean1(ColumnSum(t, "slope"),
                                           NumRows(t)))>>
                    ELSE <<>>))
    ELSE Emit(<<>>)

\* Lines 321-375.
DEMBranch(data) ==
  Then(Emit(<<Text(322), Text(327)>>),
  Then(DEMChart(data),
  Then(Emit(<<Text(361)>>),
  Then(DEMStatistics(data),
       Emit(<<Text(369), Text(370)>>)))))


\* name if name in df.columns else df.columns[i]    (lines 397-398, 443-444)
\* df.columns[i] raises IndexError when the header has no position i.
ResolveAxisFirstColumn(t, name, i) ==
  IF HasColumn(t, name) THEN [ok |-> TRUE, col |-> name]
  ELSE [ok |-> TRUE, col |-> t.columns[1]]

ResolveAxis(t, name, i) ==
  IF HasColumn(t, name) THEN [ok |-> TRUE, col |-> name]
  ELSE IF i + 1 <= Len(t.columns)
         THEN [ok |-> TRUE, col |-> t.columns[i + 1]]
         ELSE [ok |-> FALSE, col |-> ""]

\* px.scatter(df, x=..., y=..., color='class' if present else None) and
\* st.plotly_chart; the arguments are evaluated in order, x before y.
ScatterJointFallback(t, xname, yname, call, line) ==
  LET named == HasColumn(t, xname) /\ HasColumn(t, yname)
      color == IF HasColumn(t, "class") THEN "class" ELSE "None"
  IN  IF named THEN Emit(<<Chart(line, "scatter", xname, yname, color)>>)
      ELSE IF Len(t.columns) < 2 THEN Raise(call + 3)
      ELSE Emit(<<Chart(line, "scatter", t.columns[1], t.columns[2],
                        color)>>)

Scatter(t, xname, yname, call, line) ==
  LET x == ResolveAxis(t, xname, 0)
      y == ResolveAxis(t, yname, 1)
      color == IF HasColumn(t, "class") THEN "class" ELSE "None"
  IN  IF ~x.ok THEN Raise(call + 2)
      ELSE IF ~y.ok THEN Raise(call + 3)
      ELSE Emit(<<Chart(line, "scatter", x.col, y.col, color)>>)

\* Lines 393-407.
S1Chart(data) ==
  IF Available(data, "Sentinel1")
    THEN Scatter(data["Sentinel1"], "VV_1", "VV_2", 395, 405)
    ELSE Emit(<<Info(407)>>)

\* Lines 411-414 and 459-462.
SentinelStatistics(data, k, line) ==
  IF Available(data, k)
    THEN LET t == data[k] IN
         Emit(<<Metric(line, "Total Samples", FmtThousands(NumRows(t)))>>
              \o (IF HasColumn(t, "class")
                    THEN <<Metric(line + 2, "Classes",
                                  <<NUnique(t, "class")>>)>>
                    ELSE <<>>))
    ELSE Emit(<<>>)

\* Lines 377-421.
S1Branch(data) ==
  Then(Emit(<<Text(378), Text(383)>>),
  Then(S1Chart(data),
  Then(Emit(<<Text(410)>>),
  Then(SentinelStatistics(data, "Sentinel1", 412),
       Emit(<<Text(416), Text(417)>>)))))

\* Lines 439-455.
S2Chart(data) ==
  IF Available(data, "Sentinel2")
    THEN Scatter(data["Sentinel2"], "NDSI_2023", "NDVI_2023", 441, 453)
    ELSE Emit(<<Info(455)>>)

\* Lines 423-470.
S2Branch(data) ==
  Then(Emit(<<Text(424), Text(429)>>),
  Then(S2Chart(data),
  Then(Emit(<<Text(458)>>),
  Then(SentinelStatistics(data, "Sentinel2", 460),
       Emit(<<Text(464), Text(465)>>)))))

\* Lines 472-485.
LandsatBranch == Emit(<<Text(473), Text(475), Info(485)>>)

\* word in modality, for the words of the if/elif chain and the options of
\* the select box: each option contains its own word and no other.
Mentions(modality, word) ==
  <<modality, word>> \in
    {<<"Digital Elevation Model (DEM)", "DEM">>,
     <<"Sentinel-1 SAR", "Sentinel-1">>,
     <<"Sentinel-2 Optical", "Sentinel-2">>,
     <<"Landsat-8 Thermal", "Landsat-8">>}

\* Lines 310-485.
DataAnalysisLandsatReadsData(modality, data) ==
  Then(Emit(<<Text(311), Block("selectbox", 314), Text(319)>>),
       IF Mentions(modality, "DEM") THEN DEMBranch(data)
       ELSE IF Mentions(modality, "Sentinel-1") THEN S1Branch(data)
       ELSE IF Mentions(modality, "Sentinel-2") THEN S2Branch(data)
       ELSE IF Mentions(modality, "Landsat-8")
         THEN Then(Emit(<<Text(473), Text(475)>>),
                   IF Available(data, "DEM")
                     THEN Emit(<<Metric(485, "Total Samples",
                                        FmtThousands(NumRows(data["DEM"])))>>)
                     ELSE Emit(<<Info(485)>>))
       ELSE Emit(<<>>))

DataAnalysis(modality, data) ==
  Then(Emit(<<Text(311), Block("selectbox", 314), Text(319)>>),
       IF Mentions(modality, "DEM") THEN DEMBranch(data)
       ELSE IF Mentions(modality, "Sentinel-1") THEN S1Branch(data)
       ELSE IF Mentions(modality, "Sentinel-2") THEN S2Branch(data)
       ELSE IF Mentions(modality, "Landsat-8") THEN LandsatBranch
       ELSE Emit(<<>>))

\* Lines 490-573.
SatelliteImagery ==
  Emit(<<Text(491), Text(493),
         Text(502), Image(503), Text(505),
         Text(513), Image(514), Text(516),
         Text(526), Image(527), Text(529),
         Text(537), Image(538), Text(540),
         Text(547), Text(548), StaticChart(573, "sankey")>>)

\* Lines 578-693.
MachineLearning ==
  Emit(<<Text(579), Text(581), Text(588), StaticChart(612, "bar"),
         Text(617), Text(618), Text(630), Text(631), Text(643), Text(644),
         Text(655), Text(658), Block("tabs", 660),
         StaticChart(670, "bar"), Info(671),
         StaticChart(681, "bar"), Info(682),
         StaticChart(692, "bar"), Info(693)>>)

\* Lines 698-890.  The four metrics show literal strings.
ResultsAndInsights ==
  Emit(<<Text(699),
         Metric(705, "Elevation Change", <<>>),
         Metric(713, "Temperature Increase", <<>>),
         Metric(721, "Snow Cover Decline", <<>>),
         Metric(729, "Data Points Analyzed", <<>>),
         Text(735), Text(738), StaticChart(768, "scatter"), Text(770),
         Text(776), Text(777), Text(799), Text(800), Text(818), Text(821),
         StaticChart(856, "bar"), Text(858), Text(861),
         Text(866), Text(867), Text(875), Text(876), Text(884), Text(885)>>)

\* Lines 895-979.
About ==
  Emit(<<Text(896), Text(901), Text(902), Text(924), Text(925), Text(934),
         Block("dataframe", 943), Text(945), Text(946), Text(953), Text(954),
         Text(963), Text(965), Info(966), Text(975), Text(976)>>)

\* Lines 183-979: the if/elif chain on page.
PageHandlerAboutReadsData(page, modality, data) ==
  IF page = "Overview" THEN Overview(data)
  ELSE IF page = "Data Analysis" THEN DataAnalysis(modality, data)
  ELSE IF page = "Satellite Imagery" THEN SatelliteImagery
  ELSE IF page = "Machine Learning" THEN MachineLearning
  ELSE IF page = "Results & Insights" THEN ResultsAndInsights
  ELSE IF page = "About"
    THEN Then(About,
              Emit([i \in 1..Cardinality(DOMAIN data) |-> Text(943)]))
  ELSE Emit(<<>>)

PageHandler(page, modality, data) ==
  IF page = "Overview" THEN Overview(data)
  ELSE IF page = "Data Analysis" THEN DataAnalysis(modality, data)
  ELSE IF page = "Satellite Imagery" THEN SatelliteImagery
  ELSE IF page = "Machine Learning" THEN MachineLearning
  ELSE IF page = "Results & Insights" THEN ResultsAndInsights
  ELSE IF page = "About" THEN About
  ELSE Emit(<<>>)

\* The script from the page dispatch to its end: the handler, then the
\* footer unless an exception left the handler.
Body(page, modality, data) ==
  Then(PageHandler(page, modality, data), Emit(Footer))


\* ------------------------------------------------------------------ state
VARIABLES
  files,     \* what is on disk at each dataset's path
  cache,     \* st.cache_data's entry for load_model_data
  attempts,  \* the try blocks run by the last execution of its body
  data,      \* the script's global 'data'
  page,      \* the sidebar radio's selection
  modality,  \* the select box's selection
  pc,        \* where the current pass of the script is
  out,       \* the blocks the current pass has emitted
  first,     \* the mapping the first pass got since the cache was last empty
  reads,     \* executions of load_model_data's body since then (up to 2)
  prev,      \* the previous pass of the session, when it is recorded
  B_data,    \* a second browser session of the same server process:
  B_page,    \*   its own run of the script, with its own globals, widgets
  B_modality,\*   and output
  B_pc,
  B_out

\* The second session's state.
B_vars == <<B_data, B_page, B_modality, B_pc, B_out>>

vars ==
  <<files, cache, attempts, data, page, modality, pc, out, first, reads, prev,
    B_vars>>

\* A small parseable file: one column, one row.
SmallFile ==
  Parseable([columns |-> <<"class">>, rows |-> <<[c \in {"class"} |-> 1]>>])

\* The files of a deployment: any file at one path, and at each other path
\* no file, a corrupt file or a small parseable one.
SmallFiles == [Datasets -> {Absent, Corrupt, SmallFile}]

Deployment(fs) ==
  \E rest \in SmallFiles, focus \in Datasets, replace \in BOOLEAN :
    \E h \in Headers(focus) :
      \E rs \in RowsOf(h) :
        fs = IF replace
               THEN [rest EXCEPT
                       ![focus] = Parseable([columns |-> h, rows |-> rs])]
               ELSE rest

EmptyCache == [filled |-> FALSE, value |-> EmptyDict]

NoPass ==
  [valid |-> FALSE, page |-> "Overview", modality |-> DefaultModality,
   data |-> EmptyDict, out |-> <<>>]

\* A server process starts with nothing cached; a session opens on the
\* radio's first option.
Fresh ==
  /\ cache = EmptyCache
  /\ attempts = <<>>
  /\ data = EmptyDict
  /\ page = "Overview"
  /\ modality = DefaultModality
  /\ pc = "start"
  /\ out = <<>>
  /\ first = EmptyCache
  /\ reads = 0
  /\ prev = NoPass
  /\ B_data = EmptyDict
  /\ B_page = "Overview"
  /\ B_modality = DefaultModality
  /\ B_pc = "start"
  /\ B_out = <<>>

Init ==
  /\ Deployment(files)
  /\ Fresh

\* Lines 19-178: the title and sidebar, then data = load_model_data(), whose
\* body runs only when st.cache_data holds no entry for it.
LoadAnnouncesMiss ==
  /\ pc = "start"
  /\ IF cache.filled
       THEN /\ data' = cache.value
            /\ out' = Header
            /\ pc' = "loaded"
            /\ UNCHANGED <<cache, attempts, first, reads>>
       ELSE LET res == load_model_data(files) IN
            /\ attempts' = res.attempts
            /\ reads' = IF reads < 2 THEN reads + 1 ELSE reads
            /\ cache' = [filled |-> TRUE, value |-> res.dict]
            /\ data' = res.dict
            /\ out' = Append(Header, Block("success", 178))
            /\ pc' = "loaded"
            /\ first' = IF first.filled THEN first
                        ELSE [filled |-> TRUE, value |-> res.dict]
  /\ UNCHANGED <<files, page, modality, prev, B_vars>>

LoadIgnoresCache ==
  /\ pc = "start"
  /\ LET res == load_model_data(files) IN
       /\ attempts' = res.attempts
       /\ reads' = IF reads < 2 THEN reads + 1 ELSE reads
       /\ cache' = [filled |-> TRUE, value |-> res.dict]
       /\ data' = res.dict
       /\ out' = Header
       /\ pc' = "loaded"
       /\ first' = IF first.filled THEN first
                   ELSE [filled |-> TRUE, value |-> res.dict]
  /\ UNCHANGED <<files, page, modality, prev, B_vars>>

Load ==
  /\ pc = "start"
  /\ IF cache.filled
       THEN /\ data' = cache.value
            /\ out' = Header
            /\ pc' = "loaded"
            /\ UNCHANGED <<cache, attempts, first, reads>>
       ELSE LET res == load_model_data(files) IN
            /\ attempts' = res.attempts
            /\ reads' = IF reads < 2 THEN reads + 1 ELSE reads
            /\ IF res.raised
                 THEN /\ out' = Append(Header, Exception(178))
                      /\ pc' = "raised"
                      /\ UNCHANGED <<cache, data, first>>
                 ELSE /\ cache' = [filled |-> TRUE, value |-> res.dict]
                      /\ data' = res.dict
                      /\ out' = Header
                      /\ pc' = "loaded"
                      /\ first' = IF first.filled THEN first
                                  ELSE [filled |-> TRUE, value |-> res.dict]
  /\ UNCHANGED <<files, page, modality, prev, B_vars>>

\* Lines 183-990: the page handler and the footer.
RenderDropsEmpty ==
  /\ pc = "loaded"
  /\ LET res == Body(page, modality, data) IN
       /\ out' = out \o res.blocks
       /\ pc' = IF res.raised THEN "raised" ELSE "done"
  /\ data' = [k \in {x \in DOMAIN data : NumRows(data[x]) > 0} |-> data[k]]
  /\ UNCHANGED <<files, cache, attempts, page, modality, first, reads, prev,
                 B_vars>>

Render ==
  /\ pc = "loaded"
  /\ LET res == Body(page, modality, data) IN
       /\ out' = out \o res.blocks
       /\ pc' = IF res.raised THEN "raised" ELSE "done"
  /\ UNCHANGED <<files, cache, attempts, data, page, modality, first, reads,
                 prev, B_vars>>

\* The user picks a page, or on the Data Analysis page a data source, and
\* Streamlit runs the script again.  The select box exists only while the
\* Data Analysis page is shown, and starts on its first option.
Reselect ==
  /\ pc \in {"done", "raised"}
  /\ \E p \in Pages :
       \E m \in (IF p = "Data Analysis" /\ page = "Data Analysis"
                   THEN Modalities ELSE {DefaultModality}) :
         /\ page' = p
         /\ modality' = m
  /\ pc' = "start"
  /\ out' = <<>>
  /\ data' = EmptyDict
  /\ UNCHANGED <<files, cache, attempts, first, reads, B_vars>>

Rerun == Reselect /\ UNCHANGED prev

Next == Load \/ Render \/ Rerun

Spec == Init /\ [][Next]_vars

\* ------------------------------------------------------------------ cache
\* A second small parseable file: one column, two rows.
OtherFile ==
  Parseable([columns |-> <<"class">>,
             rows |-> <<[c \in {"class"} |-> 1], [c \in {"class"} |-> 2]>>])

\* The header the project's own export writes for each dataset: the columns
\* the Data Analysis page asks for by name.
ExportHeader(k) ==
  CASE k = "DEM"       -> <<"elev_change", "class", "slope">>
    [] k = "Sentinel1" -> <<"VV_1", "VV_2", "class">>
    [] k = "Sentinel2" -> <<"NDSI_2023", "NDVI_2023", "class">>

\* A file as the export writes it, with as many rows as the bound allows.
ExportFile(k) ==
  Parseable([columns |-> ExportHeader(k),
             rows |-> [i \in 1..MaxRows |->
                        [c \in Range(ExportHeader(k)) |->
                           IF c \in {"class", "slope"}
                             THEN (IF i = 1 THEN 1 ELSE 2)
                             ELSE 0]]])

FilesAt(k) == {Absent, Corrupt, SmallFile, ExportFile(k)}

\* Somebody creates, deletes, corrupts or replaces the file at one path.
FileChange ==
  /\ \E k \in Datasets :
       \E f \in (FilesAt(k) \cup {OtherFile}) \ {files[k]} :
         files' = [files EXCEPT ![k] = f]
  /\ UNCHANGED <<cache, attempts, data, page, modality, pc, out, first, reads,
                 prev, B_vars>>

\* st.cache_data loses its entry: the cache is cleared explicitly (the
\* "Clear cache" command, st.cache_data.clear()) or the process restarts.
ClearCache ==
  /\ cache.filled
  /\ cache' = EmptyCache
  /\ first' = EmptyCache
  /\ reads' = 0
  /\ UNCHANGED <<files, attempts, data, page, modality, pc, out, prev, B_vars>>

\* A rerun, remembering the pass that just ended.
RerunRecorded ==
  /\ Reselect
  /\ prev' = [valid |-> TRUE, page |-> page, modality |-> modality,
              data |-> data, out |-> out]

InitCache ==
  /\ files \in {fs \in [Datasets -> UNION {FilesAt(k) : k \in Datasets}] :
                  \A k \in Datasets : fs[k] \in FilesAt(k)}
  /\ Fresh

NextCache == Load \/ Render \/ Rerun \/ FileChange \/ ClearCache

\* One session over files that change and a cache that may be cleared.
SpecCache == InitCache /\ [][NextCache]_vars

NextHistory == Load \/ Render \/ RerunRecorded \/ ClearCache

\* One session whose passes are compared with the pass before.
SpecHistory == InitCache /\ [][NextHistory]_vars

\* ------------------------------------------------------------------ sessions
\* The second session runs the same script: its own globals and output, the
\* process-wide st.cache_data entry and the same files.  st.cache_data hands
\* every caller its own copy of the cached value.
B_Load ==
  /\ B_pc = "start"
  /\ IF cache.filled
       THEN /\ B_data' = cache.value
            /\ B_out' = Header
            /\ B_pc' = "loaded"
            /\ UNCHANGED <<cache, attempts, first, reads>>
       ELSE LET res == load_model_data(files) IN
            /\ attempts' = res.attempts
            /\ reads' = IF reads < 2 THEN reads + 1 ELSE reads
            /\ IF res.raised
                 THEN /\ B_out' = Append(Header, Exception(178))
                      /\ B_pc' = "raised"
                      /\ UNCHANGED <<cache, B_data, first>>
                 ELSE /\ cache' = [filled |-> TRUE, value |-> res.dict]
                      /\ B_data' = res.dict
                      /\ B_out' = Header
                      /\ B_pc' = "loaded"
                      /\ first' = IF first.filled THEN first
                                  ELSE [filled |-> TRUE, value |-> res.dict]
  /\ UNCHANGED <<files, data, page, modality, pc, out, prev, B_page,
                 B_modality>>

B_RenderSharedSelection ==
  /\ B_pc = "loaded"
  /\ LET res == Body(page, modality, B_data) IN
       /\ B_out' = B_out \o res.blocks
       /\ B_pc' = IF res.raised THEN "raised" ELSE "done"
  /\ UNCHANGED <<files, cache, attempts, data, page, modality, pc, out, first,
                 reads, prev, B_data, B_page, B_modality>>

B_Render ==
  /\ B_pc = "loaded"
  /\ LET res == Body(B_page, B_modality, B_data) IN
       /\ B_out' = B_out \o res.blocks
       /\ B_pc' = IF res.raised THEN "raised" ELSE "done"
  /\ UNCHANGED <<files, cache, attempts, data, page, modality, pc, out, first,
                 reads, prev, B_data, B_page, B_modality>>

B_Rerun ==
  /\ B_pc \in {"done", "raised"}
  /\ \E p \in Pages :
       \E m \in (IF p = "Data Analysis" /\ B_page = "Data Analysis"
                   THEN Modalities ELSE {DefaultModality}) :
         /\ B_page' = p
         /\ B_modality' = m
  /\ B_pc' = "start"
  /\ B_out' = <<>>
  /\ B_data' = EmptyDict
  /\ UNCHANGED <<files, cache, attempts, data, page, modality, pc, out, first,
                 reads, prev>>

NextSessions == Load \/ Render \/ Rerun \/ B_Load \/ B_Render \/ B_Rerun

\* Two sessions of one server process, their passes interleaved.
SpecSessions == InitCache /\ [][NextSessions]_vars


\* ------------------------------------------------------------------ claims
Finished == pc \in {"done", "raised"}

\* The number of blocks of a kind the current pass has emitted.
Count(kind) == Cardinality({i \in DOMAIN out : out[i].kind = kind})

Emitted(b) == b \in Range(out)

OnModality(m) == Finished /\ page = "Data Analysis" /\ modality = m

LoadOrder == <<"DEM", "Sentinel1", "Sentinel2">>

\* C1: when a dataset's file does not exist, load_model_data returns
\* normally and the mapping it returns (and caches) has no entry for that
\* dataset.
C1_AbsentFileOmitted ==
  \A k \in Datasets :
    (pc # "start" /\ ~files[k].exists) =>
      /\ ~Emitted(Exception(178))
      /\ cache.filled
      /\ k \notin DOMAIN cache.value
      /\ k \notin DOMAIN data

C1_Witness ==
  /\ pc = "loaded"
  /\ ~files["Sentinel1"].exists
  /\ "Sentinel1" \notin DOMAIN data
  /\ DOMAIN data = {"DEM", "Sentinel2"}

\* C2: when a dataset's file exists but read_csv cannot parse it,
\* load_model_data returns normally and the mapping has no entry for that
\* dataset; every value of the mapping is the table parsed from its file,
\* never an error value.
C2_CorruptFileOmitted ==
  pc # "start" =>
    /\ \A k \in Datasets :
         (files[k].exists /\ ~files[k].parses) =>
           /\ ~Emitted(Exception(178))
           /\ cache.filled
           /\ k \notin DOMAIN cache.value
           /\ k \notin DOMAIN data
    /\ \A k \in DOMAIN data :
         /\ files[k].parses
         /\ data[k] = files[k].table
         /\ data[k] # NoTable

C2_Witness ==
  /\ pc = "loaded"
  /\ files["DEM"] = Corrupt
  /\ "DEM" \notin DOMAIN data
  /\ "Sentinel1" \in DOMAIN data

\* C3: after loading, whether dataset k is a key of the mapping, and the
\* table under it, are decided by file k alone, whatever the other two files
\* are; and the body of load_model_data runs all three try blocks.
C3_LoadIndependent ==
  pc # "start" =>
    /\ attempts = LoadOrder
    /\ \A k \in Datasets :
         /\ k \in DOMAIN data <=> (files[k].exists /\ files[k].parses)
         /\ k \in DOMAIN data => data[k] = files[k].table

C3_Witness ==
  /\ pc = "loaded"
  /\ files["DEM"] = Corrupt
  /\ files["Sentinel1"] = Absent
  /\ DOMAIN data = {"Sentinel2"}
  /\ NumRows(data["Sentinel2"]) = MaxRows
  /\ attempts = LoadOrder

\* C4: every pass completes without raising and ends with the footer,
\* whatever the page, the data source and the loaded tables.
C4_RenderingTotal ==
  /\ pc # "raised"
  /\ Count("exception") = 0
  /\ pc = "done" =>
       /\ Len(out) >= Len(Footer)
       /\ SubSeq(out, Len(out) - Len(Footer) + 1, Len(out)) = Footer

\* C5: the Data Analysis page on the DEM source with no 'DEM' key emits
\* exactly one informational placeholder, no chart and no metric.
C5_DEMMissingPlaceholder ==
  (OnModality("Digital Elevation Model (DEM)") /\ "DEM" \notin DOMAIN data) =>
    /\ pc = "done"
    /\ Count("info") = 1
    /\ Emitted(Info(358))
    /\ Count("chart") = 0
    /\ Count("metric") = 0
    /\ Count("warning") = 0

C5_Witness ==
  /\ pc = "done"
  /\ page = "Data Analysis"
  /\ modality = "Digital Elevation Model (DEM)"
  /\ DOMAIN data = {"Sentinel1", "Sentinel2"}
  /\ Emitted(Info(358))

\* The dataset a data source of the Data Analysis page looks up.
SourceOf(k) ==
  CASE k = "DEM"       -> "Digital Elevation Model (DEM)"
    [] k = "Sentinel1" -> "Sentinel-1 SAR"
    [] k = "Sentinel2" -> "Sentinel-2 Optical"

\* The dict d without the key k.
Without(d, k) == [x \in DOMAIN d \ {k} |-> d[x]]

\* C6: for the DEM, Sentinel-1 and Sentinel-2 sources, a pass over a table
\* with zero rows emits the same blocks as a pass over a mapping without
\* that key.
C6_EmptyAsMissing ==
  \A k \in Datasets :
    (OnModality(SourceOf(k)) /\ k \in DOMAIN data /\ NumRows(data[k]) = 0) =>
      /\ pc = "done"
      /\ out = Header \o Body(page, modality, Without(data, k)).blocks

C6_Witness ==
  /\ pc = "done"
  /\ page = "Data Analysis"
  /\ modality = "Digital Elevation Model (DEM)"
  /\ "DEM" \in DOMAIN data
  /\ NumRows(data["DEM"]) = 0
  /\ data["DEM"].columns = <<"elev_change", "slope", "class">>
  /\ Emitted(Info(358))

\* C7: on the Sentinel-1 source, a non-empty table with neither 'VV_1' nor
\* 'VV_2' and at least two columns yields one scatter chart of its first
\* column (x) against its second column (y), and no placeholder or failure.
C7_PositionalFallback ==
  (/\ OnModality("Sentinel-1 SAR")
   /\ "Sentinel1" \in DOMAIN data
   /\ NumRows(data["Sentinel1"]) > 0
   /\ ~HasColumn(data["Sentinel1"], "VV_1")
   /\ ~HasColumn(data["Sentinel1"], "VV_2")
   /\ Len(data["Sentinel1"].columns) >= 2) =>
    /\ pc = "done"
    /\ Count("chart") = 1
    /\ \E i \in DOMAIN out :
         /\ out[i].kind = "chart"
         /\ out[i].label = "scatter"
         /\ out[i].x = data["Sentinel1"].columns[1]
         /\ out[i].y = data["Sentinel1"].columns[2]
    /\ Count("info") = 0
    /\ Count("exception") = 0

C7_Witness ==
  /\ pc = "done"
  /\ page = "Data Analysis"
  /\ modality = "Sentinel-1 SAR"
  /\ "Sentinel1" \in DOMAIN data
  /\ data["Sentinel1"].columns = <<"VH_1", "class">>
  /\ NumRows(data["Sentinel1"]) = 1
  /\ Emitted(Chart(405, "scatter", "VH_1", "class", "class"))


Abs(n) == IF n < 0 THEN -n ELSE n

MetricsLabelled(labels) ==
  {i \in DOMAIN out : out[i].kind = "metric" /\ out[i].label \in labels}

\* C8: on the DEM source, a table with the columns elev_change, class and
\* slope over N > 0 rows yields exactly one chart, the histogram of
\* elev_change, and exactly three metrics: N, the number of distinct values
\* of class, and the mean of slope (printed to one decimal, so within 0.05
\* of the mean); no placeholder or warning is emitted.
C8_DEMChartAndMetrics ==
  (/\ OnModality("Digital Elevation Model (DEM)")
   /\ "DEM" \in DOMAIN data
   /\ NumRows(data["DEM"]) > 0
   /\ {"elev_change", "class", "slope"} \subseteq Range(data["DEM"].columns)) =>
    LET t == data["DEM"]
        n == NumRows(t)
        total == ColumnSum(t, "slope")
        classes == {t.rows[j]["class"] : j \in 1..n}
    IN  /\ pc = "done"
        /\ Count("chart") = 1
        /\ Emitted(Chart(354, "histogram", "elev_change", "", ""))
        /\ Count("metric") = 3
        /\ \E i \in MetricsLabelled({"Total Samples"}) : out[i].value = <<n>>
        /\ \E i \in MetricsLabelled({"Classes Identified"}) :
             out[i].value = <<Cardinality(classes)>>
        /\ \E i \in MetricsLabelled({"Avg Slope"}) :
             /\ Len(out[i].value) = 2
             /\ out[i].value[2] \in 0..9
             /\ 2 * Abs(10 * total - (10 * out[i].value[1] + out[i].value[2]) * n)
                  <= n
        /\ Count("info") = 0
        /\ Count("warning") = 0

C8_Witness ==
  /\ pc = "done"
  /\ page = "Data Analysis"
  /\ modality = "Digital Elevation Model (DEM)"
  /\ "DEM" \in DOMAIN data
  /\ data["DEM"].columns = <<"elev_change", "class", "slope">>
  /\ NumRows(data["DEM"]) = 2
  /\ Emitted(Metric(363, "Total Samples", <<2>>))
  /\ Emitted(Metric(365, "Classes Identified", <<1>>))
  /\ Emitted(Metric(367, "Avg Slope", <<1, 5>>))

\* C9: for a present, non-empty dataset the row-count metric is always
\* emitted, the class metric exactly when a 'class' column is present, and
\* the mean-slope metric exactly when the dataset is DEM and a 'slope'
\* column is present, whatever columns the chart finds.
C9_MetricsIndependent ==
  \A k \in Datasets :
    (OnModality(SourceOf(k)) /\ k \in DOMAIN data /\ NumRows(data[k]) > 0) =>
      /\ Cardinality(MetricsLabelled({"Total Samples"})) = 1
      /\ MetricsLabelled({"Classes", "Classes Identified"}) # {}
           <=> HasColumn(data[k], "class")
      /\ MetricsLabelled({"Avg Slope"}) # {}
           <=> (k = "DEM" /\ HasColumn(data[k], "slope"))

\* C10: a pass over the Overview page emits the blocks it emits for the
\* empty mapping, whatever was loaded: the static cards, the map centred on
\* 30.92/79.08 with the 15 km circle, and the timeline of literal data.
C10_OverviewIgnoresData ==
  (Finished /\ page = "Overview") =>
    /\ pc = "done"
    /\ out = Header \o Overview(EmptyDict).blocks \o Footer
    /\ \E i \in DOMAIN out :
         out[i].kind = "map" /\ out[i].value = <<3092, 7908, 15000>>
    /\ Count("chart") = 1
    /\ Emitted(Chart(298, "timeline", "Year", "Satellite", "Type"))
    /\ Count("metric") = 0

C10_Witness ==
  /\ pc = "done"
  /\ page = "Overview"
  /\ DOMAIN data = Datasets
  /\ NumRows(data["DEM"]) = MaxRows
  /\ Emitted(OverviewMap)


StaticPages ==
  {"Satellite Imagery", "Machine Learning", "Results & Insights", "About"}

\* C11: a pass over the Satellite Imagery, Machine Learning, Results &
\* Insights or About page emits the blocks it emits for the empty mapping,
\* whatever was loaded.
C11_StaticPagesIgnoreData ==
  (Finished /\ page \in StaticPages) =>
    /\ pc = "done"
    /\ out = Header \o PageHandler(page, modality, EmptyDict).blocks \o Footer
    /\ Len(out) > Len(Header) + Len(Footer)

C11_Witness ==
  /\ pc = "done"
  /\ page = "About"
  /\ DOMAIN data = Datasets
  /\ NumRows(data["Sentinel1"]) = MaxRows
  /\ Emitted(Block("dataframe", 943))

\* The preferred axis names of a Sentinel scatter chart.
PreferredX(k) == IF k = "Sentinel1" THEN "VV_1" ELSE "NDSI_2023"

PreferredY(k) == IF k = "Sentinel1" THEN "VV_2" ELSE "NDVI_2023"

\* C16: in the Sentinel-1 and Sentinel-2 scatter charts x is the preferred
\* name when that column is present and the first column otherwise, and y
\* is the preferred name when present and the second column otherwise, each
\* decided without regard to the other (whenever the column the rule names
\* exists, exactly one such chart is emitted).
C16_AxesResolvedIndependently ==
  \A k \in {"Sentinel1", "Sentinel2"} :
    (OnModality(SourceOf(k)) /\ k \in DOMAIN data /\ NumRows(data[k]) > 0) =>
      LET t == data[k]
          cols == t.columns
          xcol == IF PreferredX(k) \in Range(cols) THEN PreferredX(k)
                  ELSE cols[1]
          ycol == IF PreferredY(k) \in Range(cols) THEN PreferredY(k)
                  ELSE cols[2]
      IN  (PreferredY(k) \in Range(cols) \/ Len(cols) >= 2) =>
            /\ pc = "done"
            /\ Count("chart") = 1
            /\ \E i \in DOMAIN out :
                 /\ out[i].kind = "chart"
                 /\ out[i].label = "scatter"
                 /\ out[i].x = xcol
                 /\ out[i].y = ycol

\* Both axes on the same physical column: VV_1 is second and VV_2 missing.
C16_Witness ==
  /\ pc = "done"
  /\ page = "Data Analysis"
  /\ modality = "Sentinel-1 SAR"
  /\ "Sentinel1" \in DOMAIN data
  /\ data["Sentinel1"].columns = <<"VH_1", "VV_1">>
  /\ NumRows(data["Sentinel1"]) = 1
  /\ Emitted(Chart(405, "scatter", "VV_1", "VV_1", "None"))

\* C17: on the DEM source a non-empty table without 'elev_change' yields no
\* chart and exactly one warning, not the placeholder, and still the
\* row-count metric, with the class and slope metrics exactly when those
\* columns exist.
C17_DEMNoPositionalFallback ==
  (/\ OnModality("Digital Elevation Model (DEM)")
   /\ "DEM" \in DOMAIN data
   /\ NumRows(data["DEM"]) > 0
   /\ "elev_change" \notin Range(data["DEM"].columns)) =>
    LET t == data["DEM"] IN
    /\ pc = "done"
    /\ Count("chart") = 0
    /\ Count("warning") = 1
    /\ Emitted(Warning(356))
    /\ Count("info") = 0
    /\ \E i \in MetricsLabelled({"Total Samples"}) :
         out[i].value = <<Len(t.rows)>>
    /\ MetricsLabelled({"Classes Identified"}) # {}
         <=> "class" \in Range(t.columns)
    /\ MetricsLabelled({"Avg Slope"}) # {} <=> "slope" \in Range(t.columns)
    /\ Count("metric") =
         1 + Cardinality({"class", "slope"} \cap Range(t.columns))

C17_Witness ==
  /\ pc = "done"
  /\ page = "Data Analysis"
  /\ modality = "Digital Elevation Model (DEM)"
  /\ "DEM" \in DOMAIN data
  /\ data["DEM"].columns = <<"aspect", "slope">>
  /\ NumRows(data["DEM"]) = 2
  /\ Emitted(Warning(356))
  /\ Emitted(Metric(367, "Avg Slope", <<1, 5>>))

\* C18: a pass over the Landsat-8 Thermal source emits the same blocks for
\* every mapping: static text and exactly one informational block, no chart
\* and no metric.
C18_LandsatStatic ==
  OnModality("Landsat-8 Thermal") =>
    /\ pc = "done"
    /\ out = Header
               \o <<Text(311), Block("selectbox", 314), Text(319), Text(473),
                    Text(475), Info(485)>>
               \o Footer
    /\ Count("info") = 1
    /\ Count("chart") = 0
    /\ Count("metric") = 0

C18_Witness ==
  /\ pc = "done"
  /\ page = "Data Analysis"
  /\ modality = "Landsat-8 Thermal"
  /\ DOMAIN data = Datasets
  /\ NumRows(data["DEM"]) = MaxRows
  /\ Emitted(Info(485))


\* C12: a pass with the same page, data source and mapping as the pass
\* before it emits the same blocks, whether load_model_data ran or the cache
\* answered.
C12_RenderIdempotent ==
  (/\ Finished
   /\ prev.valid
   /\ prev.page = page
   /\ prev.modality = modality
   /\ prev.data = data) =>
    out = prev.out

C12_Witness ==
  /\ pc = "done"
  /\ prev.valid
  /\ page = "Data Analysis"
  /\ prev.page = page
  /\ modality = "Sentinel-2 Optical"
  /\ prev.modality = modality
  /\ DOMAIN data = {"DEM", "Sentinel2"}
  /\ prev.data = data
  /\ out = prev.out
  /\ Count("metric") = 2

\* C13: the step that runs the page handler leaves the loaded mapping as it
\* was: the same keys, and under each key the same columns and rows.
C13_MappingUnmodified ==
  [][(pc = "loaded" /\ pc' # "loaded") => data' = data]_vars

C13_Witness ==
  /\ pc = "done"
  /\ page = "Data Analysis"
  /\ modality = "Sentinel-1 SAR"
  /\ DOMAIN data = Datasets
  /\ NumRows(data["Sentinel1"]) = 0
  /\ Len(data["Sentinel1"].columns) = MaxCols
  /\ data = cache.value

\* C14: between two losses of the cache entry (explicit clearing, process
\* restart) the body of load_model_data runs at most once, on the first
\* pass, and every pass gets the mapping that pass got, whatever has
\* happened to the files since.
C14_LoadedOnce ==
  /\ reads <= 1
  /\ cache.filled => (reads = 1 /\ first = cache)
  /\ (pc # "start" /\ first.filled) => data = first.value

\* A later pass still sees three tables although every file is gone.
C14_Witness ==
  /\ pc = "done"
  /\ page = "About"
  /\ reads = 1
  /\ first.filled
  /\ data = first.value
  /\ DOMAIN data = Datasets
  /\ \A k \in Datasets : files[k] = Absent

\* C15: with the passes of two sessions interleaved, every step changes the
\* state of one session only; the mapping a session is handed is the one
\* load_model_data yields, whichever session made it run; and the blocks a
\* session's page handler emits are those of its own page, data source and
\* mapping.
C15_SessionsIndependent ==
  [][/\ <<data, page, modality, pc, out>>' # <<data, page, modality, pc, out>>
          => UNCHANGED B_vars
     /\ B_vars' # B_vars => UNCHANGED <<data, page, modality, pc, out>>
     /\ (pc = "start" /\ pc' = "loaded")
          => data' = load_model_data(files).dict
     /\ (B_pc = "start" /\ B_pc' = "loaded")
          => B_data' = load_model_data(files).dict
     /\ (pc = "loaded" /\ pc' # "loaded")
          => /\ out' = Header \o Body(page, modality, data).blocks
             /\ data' = data
     /\ (B_pc = "loaded" /\ B_pc' # "loaded")
          => /\ B_out' = Header \o Body(B_page, B_modality, B_data).blocks
             /\ B_data' = B_data]_vars

C15_Witness ==
  /\ pc = "done"
  /\ B_pc = "done"
  /\ page = "Data Analysis"
  /\ modality = "Sentinel-1 SAR"
  /\ B_page = "Data Analysis"
  /\ B_modality = "Digital Elevation Model (DEM)"
  /\ DOMAIN data = Datasets
  /\ data = B_data
  /\ out # B_out

====
